---- MODULE Spec2Model ----
(***************************************************************************)
(* Model of the libro store (src/src/db.ts): the schema migration that     *)
(* Database.migrate applies statement by statement to the SQLite file, and *)
(* the repository operations that run on the migrated store.               *)
(*                                                                         *)
(* SQL NULL is written 0 in integer columns (row ids start at 1) and       *)
(* "NULL" in text columns.  Every statement is auto-committed: migrate     *)
(* opens no transaction, so the process can stop between any two of them.  *)
(***************************************************************************)
EXTENDS Integers, FiniteSets, Sequences, TLC

VARIABLES store, foreign_keys, pc, oldVersion, columnNames, err, ret,
          preOpen, crashes, backfillFailed, rebuildFailed, ops, handle

vars == <<store, foreign_keys, pc, oldVersion, columnNames, err, ret,
          preOpen, crashes, backfillFailed, rebuildFailed, ops, handle>>

(* ---------------- bounds ---------------- *)

MaxBooks == 2

MaxCrashes == 2

\* successful writes of the repository operations
MaxOps == 5

(* ---------------- tables ---------------- *)

NoTable == [exists |-> FALSE, cols |-> {}, rows |-> {}]

V1BooksCols == {"id", "title", "author", "pages", "pub_year", "genre"}

ReviewsCols == {"id", "book_id", "date_read", "rating", "review"}

WritersCols == {"id", "name", "type"}

BookWritersCols == {"book_id", "writer_id", "type"}

BooksNewCols == {"id", "title", "pages", "pub_year", "genre"}

IntCols == {"id", "pages", "pub_year", "author_id", "translator_id",
            "book_id", "writer_id", "rating"}

NullOf(c) == IF c \in IntCols THEN 0 ELSE "NULL"

HasCol(t, c) == t.exists /\ c \in t.cols

Ids(t) == {r.id : r \in t.rows}

\* the statement left out: the table is never created
CreateTableIfNotExists_never(t, cols) == t

\* CREATE TABLE IF NOT EXISTS
CreateTableIfNotExists(t, cols) ==
  IF t.exists THEN t ELSE [exists |-> TRUE, cols |-> cols, rows |-> {}]

\* ALTER TABLE t ADD COLUMN c: every existing row gets NULL in the new column
AddColumnOk(t, c) == t.exists /\ c \notin t.cols

AddColumn(t, c) ==
  [exists |-> TRUE,
   cols   |-> t.cols \cup {c},
   rows   |-> {[x \in (DOMAIN r) \cup {c} |-> IF x = c THEN NullOf(c) ELSE r[x]]
                 : r \in t.rows}]

(* ---------------- the stores a process can find on disk ---------------- *)

Names == <<"A", "B", "C", "D">>

Titles == <<"T", "U", "V", "W">>

NameOf(i) == Names[((i - 1) % 4) + 1]

TitleOf(i) == Titles[((i - 1) % 4) + 1]

LegacyBook(i) ==
  [id |-> i, title |-> TitleOf(i), author |-> NameOf(i), pages |-> 100 + i,
   pub_year |-> 1960 + i, genre |-> "G"]

LegacyReview(i) ==
  [id |-> i, book_id |-> i, date_read |-> "2020-01-01", rating |-> 3,
   review |-> "R"]

EmptyStore ==
  [user_version |-> 0, books |-> NoTable, books_new |-> NoTable,
   reviews |-> NoTable, writers |-> NoTable, book_writers |-> NoTable]

\* a store written by release 1: books carry the author as text
StoreV1(n, m) ==
  [EmptyStore EXCEPT
     !.user_version = 1,
     !.books   = [exists |-> TRUE, cols |-> V1BooksCols,
                  rows |-> {LegacyBook(i) : i \in 1..n}],
     !.reviews = [exists |-> TRUE, cols |-> ReviewsCols,
                  rows |-> {LegacyReview(i) : i \in 1..m}]]

\* a store written by release 3: writers exist and books point at them through
\* the transitional author_id / translator_id columns
StoreV3(n, m, linked) ==
  LET b1 == AddColumn(StoreV1(n, m).books, "translator")
      b2 == AddColumn(AddColumn(b1, "author_id"), "translator_id")
      tr == n + 1
      fill(r) == [r EXCEPT !.author_id = r.id,
                           !.translator = IF r.id = 1 THEN "Tr" ELSE "",
                           !.translator_id = IF r.id = 1 THEN tr ELSE 0]
  IN [StoreV1(n, m) EXCEPT
        !.user_version = 3,
        !.books = IF linked THEN [b2 EXCEPT !.rows = {fill(r) : r \in b2.rows}]
                            ELSE b2,
        !.writers = [exists |-> TRUE, cols |-> WritersCols,
                     rows |-> IF linked /\ n > 0
                              THEN {[id |-> i, name |-> NameOf(i), type |-> "author"]
                                      : i \in 1..n}
                                   \cup {[id |-> tr, name |-> "Tr",
                                          type |-> "translator"]}
                              ELSE {}]]

Seeds ==
  {EmptyStore}
  \cup {StoreV1(n, m) : n \in 0..MaxBooks, m \in 0..1}
  \cup {StoreV3(n, m, l) : n \in 0..MaxBooks, m \in 0..1, l \in BOOLEAN}

NoRet ==
  [op |-> "none", name |-> "", type |-> "", book_id |-> 0, writer_id |-> 0,
   ok |-> TRUE, id |-> 0]

Init ==
  /\ store \in {s \in Seeds : Cardinality(s.reviews.rows) <= Cardinality(s.books.rows)}
  /\ foreign_keys = FALSE
  /\ pc = "closed"
  /\ oldVersion = 0
  /\ columnNames = {}
  /\ err = "none"
  /\ ret = NoRet
  /\ preOpen = store
  /\ crashes = 0
  /\ backfillFailed = FALSE
  /\ rebuildFailed = FALSE
  /\ ops = 0
  /\ handle = "none"

(* ---------------- Database.constructor ---------------- *)

\* new DB(path): a fresh connection, on which SQLite's foreign_keys is off
Open ==
  /\ pc = "closed"
  /\ pc' = "m_fk_on"
  /\ foreign_keys' = FALSE
  /\ preOpen' = store
  /\ oldVersion' = 0
  /\ columnNames' = {}
  /\ err' = "none"
  /\ ret' = NoRet
  /\ backfillFailed' = FALSE
  /\ rebuildFailed' = FALSE
  /\ handle' = "open"
  /\ UNCHANGED <<store, crashes, ops>>

(* ---------------- Database.migrate ---------------- *)

\* the guard off by one: a step is skipped when the store is one version behind
NeedsStep_offByOne(old, k) == old < k - 1

\* the guard with <= : a step runs again on a store that already has it
NeedsStep_le(old, k) == old <= k

\* the guard of migration step k: if (oldVersion < k)
NeedsStep(old, k) == old < k

EnterStep4(old) == IF NeedsStep(old, 4) THEN "v4_book_writers" ELSE "ready"

EnterStep3(old) == IF NeedsStep(old, 3) THEN "v3_writers" ELSE EnterStep4(old)

EnterStep2(old) == IF NeedsStep(old, 2) THEN "v2_translator" ELSE EnterStep3(old)

EnterStep1(old) == IF NeedsStep(old, 1) THEN "v1_books" ELSE EnterStep2(old)

MigratePcs ==
  {"m_fk_on", "m_user_version", "v1_books", "v1_reviews", "v1_version",
   "v2_translator", "v2_version", "v3_writers", "v3_table_info",
   "v3_author_id", "v3_translator_id", "v3_version", "v4_book_writers",
   "v4_author", "v4_translator", "v4_fk_off", "v4_books_new", "v4_copy",
   "v4_drop", "v4_rename", "v4_fk_on", "v4_version"}

\* one statement of migrate that cannot throw: it moves to pc `to`
Stmt(from, to, newStore) ==
  /\ pc = from
  /\ pc' = to
  /\ store' = newStore
  /\ UNCHANGED <<foreign_keys, oldVersion, columnNames, err, ret, preOpen,
                 crashes, handle, ops, backfillFailed, rebuildFailed>>

\* PRAGMA foreign_keys = ON;
MigrateForeignKeysOn ==
  /\ pc = "m_fk_on"
  /\ foreign_keys' = TRUE
  /\ pc' = "m_user_version"
  /\ UNCHANGED <<store, oldVersion, columnNames, err, ret, preOpen, crashes, handle, ops,
                 backfillFailed, rebuildFailed>>

\* const [[oldVersion]] = PRAGMA user_version
MigrateReadVersion ==
  /\ pc = "m_user_version"
  /\ oldVersion' = store.user_version
  /\ pc' = EnterStep1(store.user_version)
  /\ UNCHANGED <<store, foreign_keys, columnNames, err, ret, preOpen, crashes, handle, ops,
                 backfillFailed, rebuildFailed>>

V1CreateBooks ==
  Stmt("v1_books", "v1_reviews",
       [store EXCEPT !.books = CreateTableIfNotExists(store.books, V1BooksCols)])

V1CreateReviews ==
  Stmt("v1_reviews", "v1_version",
       [store EXCEPT !.reviews = CreateTableIfNotExists(store.reviews, ReviewsCols)])

V1Version == Stmt("v1_version", EnterStep2(oldVersion), [store EXCEPT !.user_version = 1])

\* SELECT translator FROM books LIMIT 1 throws when the column (or the table)
\* is missing; the catch then adds the column, ignoring a failure of the ALTER
V2Books(books, old) ==
  IF HasCol(books, "translator") THEN books
  ELSE IF old < 2 /\ AddColumnOk(books, "translator")
       THEN AddColumn(books, "translator")
       ELSE books

V2Translator ==
  Stmt("v2_translator", "v2_version",
       [store EXCEPT !.books = V2Books(store.books, oldVersion)])

V2Version == Stmt("v2_version", EnterStep3(oldVersion), [store EXCEPT !.user_version = 2])

V3Writers(writers) == CreateTableIfNotExists(writers, WritersCols)

V3CreateWriters ==
  Stmt("v3_writers", "v3_table_info",
       [store EXCEPT !.writers = V3Writers(store.writers)])

\* PRAGMA table_info(books): the column names, empty when there is no table
V3TableInfo ==
  /\ pc = "v3_table_info"
  /\ columnNames' = store.books.cols
  /\ pc' = "v3_author_id"
  /\ UNCHANGED <<store, foreign_keys, oldVersion, err, ret, preOpen, crashes, handle, ops,
                 backfillFailed, rebuildFailed>>

\* if (!columnNames.includes(c)) try { ALTER TABLE books ADD COLUMN c } catch {}
V3AddColumn(books, names, c) ==
  IF c \notin names /\ AddColumnOk(books, c) THEN AddColumn(books, c) ELSE books

V3AuthorId ==
  Stmt("v3_author_id", "v3_translator_id",
       [store EXCEPT !.books = V3AddColumn(store.books, columnNames, "author_id")])

V3TranslatorId ==
  Stmt("v3_translator_id", "v3_version",
       [store EXCEPT !.books = V3AddColumn(store.books, columnNames, "translator_id")])

V3Version == Stmt("v3_version", EnterStep4(oldVersion), [store EXCEPT !.user_version = 3])

V4CreateBookWriters ==
  Stmt("v4_book_writers", "v4_author",
       [store EXCEPT !.book_writers =
          CreateTableIfNotExists(store.book_writers, BookWritersCols)])

\* the foreign-key checks SQLite makes on INSERT INTO book_writers
LinksForeignKeysOk(st, rows) ==
  /\ st.books.exists
  /\ st.writers.exists
  /\ \A r \in rows : r.book_id \in Ids(st.books) /\ r.writer_id \in Ids(st.writers)

\* book_writers declared without its PRIMARY KEY
InsertLinksOk_noKey(st, rows, fk) ==
  /\ st.book_writers.exists
  /\ fk => LinksForeignKeysOk(st, rows)

\* INSERT INTO book_writers ... is one statement: it inserts all rows or none
InsertLinksOk(st, rows, fk) ==
  /\ st.book_writers.exists
  /\ rows \cap st.book_writers.rows = {}
  /\ fk => LinksForeignKeysOk(st, rows)

InsertLinks(st, rows) ==
  [st EXCEPT !.book_writers.rows = st.book_writers.rows \cup rows]

\* SELECT id, author_id, 'author' FROM books WHERE author_id IS NOT NULL
AuthorLinks(books) ==
  {[book_id |-> r.id, writer_id |-> r.author_id, type |-> "author"]
     : r \in {x \in books.rows : x.author_id # 0}}

\* TRIM(translator) != '' is not true of NULL nor of a blank text
TrimNotEmpty(s) == s \notin {"NULL", "", " "}

\* SELECT id, translator_id, 'translator' FROM books
\*   WHERE translator_id IS NOT NULL AND TRIM(translator) != ''
TranslatorLinks(books) ==
  {[book_id |-> r.id, writer_id |-> r.translator_id, type |-> "translator"]
     : r \in {x \in books.rows : x.translator_id # 0 /\ TrimNotEmpty(x.translator)}}

\* try { probe; INSERT } catch { log }: a failure is logged and migrate goes on
Backfill(from, to, probeOk, insertOk, rows) ==
  /\ pc = from
  /\ pc' = to
  /\ IF probeOk /\ insertOk
     THEN store' = InsertLinks(store, rows) /\ UNCHANGED backfillFailed
     ELSE store' = store /\ backfillFailed' = (backfillFailed \/ probeOk)
  /\ UNCHANGED <<foreign_keys, oldVersion, columnNames, err, ret, preOpen,
                 crashes, handle, ops, rebuildFailed>>

V4BackfillAuthor ==
  LET probeOk == HasCol(store.books, "author_id")
      rows == IF probeOk THEN AuthorLinks(store.books) ELSE {}
  IN Backfill("v4_author", "v4_translator", probeOk,
              InsertLinksOk(store, rows, foreign_keys), rows)

V4BackfillTranslator ==
  LET probeOk == HasCol(store.books, "translator_id")
      colOk == HasCol(store.books, "translator")
      rows == IF probeOk /\ colOk THEN TranslatorLinks(store.books) ELSE {}
  IN Backfill("v4_translator", "v4_fk_off", probeOk,
              colOk /\ InsertLinksOk(store, rows, foreign_keys), rows)

\* the PRAGMA forgotten: the rebuild runs with foreign keys enforced
FkDuringRebuild_on == TRUE

\* PRAGMA foreign_keys = OFF; before the rebuild
FkDuringRebuild == FALSE

V4ForeignKeysOff ==
  /\ pc = "v4_fk_off"
  /\ foreign_keys' = FkDuringRebuild
  /\ pc' = "v4_books_new"
  /\ UNCHANGED <<store, oldVersion, columnNames, err, ret, preOpen, crashes, handle, ops,
                 backfillFailed, rebuildFailed>>

\* the rebuild wrapped in try/catch like the backfill: a failure is only logged
RebuildTarget_swallow(ok, to) == to

\* the rebuild statements are in no try block: a failure leaves migrate
RebuildTarget(ok, to) == IF ok THEN to ELSE "failed"

Rebuild(from, to, ok, newStore) ==
  /\ pc = from
  /\ pc' = RebuildTarget(ok, to)
  /\ store' = IF ok THEN newStore ELSE store
  /\ rebuildFailed' = (rebuildFailed \/ ~ok)
  /\ err' = IF ok THEN err ELSE "SqliteError"
  /\ UNCHANGED <<foreign_keys, oldVersion, columnNames, ret, preOpen, crashes, handle, ops,
                 backfillFailed>>

\* CREATE TABLE books_new (no IF NOT EXISTS)
V4CreateBooksNew ==
  Rebuild("v4_books_new", "v4_copy", ~store.books_new.exists,
          [store EXCEPT !.books_new =
             [exists |-> TRUE, cols |-> BooksNewCols, rows |-> {}]])

CopyRow(r) == [c \in BooksNewCols |-> r[c]]

\* INSERT INTO books_new (...) SELECT id, title, pages, pub_year, genre FROM books
V4CopyOk(st) ==
  /\ st.books.exists
  /\ st.books_new.exists
  /\ BooksNewCols \subseteq st.books.cols
  /\ Ids(st.books) \cap Ids(st.books_new) = {}

V4Copy ==
  Rebuild("v4_copy", "v4_drop", V4CopyOk(store),
          [store EXCEPT !.books_new.rows =
             store.books_new.rows \cup {CopyRow(r) : r \in store.books.rows}])

\* DROP TABLE books.  With foreign keys on SQLite first deletes every row:
\* reviews(book_id) has no ON DELETE action, so a referenced book makes the
\* statement fail; book_writers(book_id) is ON DELETE CASCADE.
DropBooksOk(st, fk) ==
  /\ st.books.exists
  /\ fk => \A r \in st.reviews.rows : r.book_id \notin Ids(st.books)

DropBooks(st, fk) ==
  [st EXCEPT
     !.books = NoTable,
     !.book_writers.rows =
        IF fk THEN {l \in st.book_writers.rows : l.book_id \notin Ids(st.books)}
              ELSE st.book_writers.rows]

V4Drop ==
  Rebuild("v4_drop", "v4_rename", DropBooksOk(store, foreign_keys),
          DropBooks(store, foreign_keys))

\* ALTER TABLE books_new RENAME TO books
V4Rename ==
  Rebuild("v4_rename", "v4_fk_on", store.books_new.exists /\ ~store.books.exists,
          [store EXCEPT !.books = store.books_new, !.books_new = NoTable])

V4ForeignKeysOn ==
  /\ pc = "v4_fk_on"
  /\ foreign_keys' = TRUE
  /\ pc' = "v4_version"
  /\ UNCHANGED <<store, oldVersion, columnNames, err, ret, preOpen, crashes, handle, ops,
                 backfillFailed, rebuildFailed>>

\* PRAGMA user_version = 4 left out
V4Version_skipped == Stmt("v4_version", "ready", store)

V4Version == Stmt("v4_version", "ready", [store EXCEPT !.user_version = 4])

\* a second call of the public migrate() on the open Database
MigrateAgain ==
  /\ pc = "ready"
  /\ pc' = "m_fk_on"
  /\ preOpen' = store
  /\ ret' = NoRet
  /\ err' = "none"
  /\ backfillFailed' = FALSE
  /\ rebuildFailed' = FALSE
  /\ UNCHANGED <<store, foreign_keys, oldVersion, columnNames, crashes, handle, ops>>

(* ---------------- the process ends ---------------- *)

Disconnect ==
  /\ pc' = "closed"
  /\ foreign_keys' = FALSE
  /\ oldVersion' = 0
  /\ columnNames' = {}
  /\ err' = "none"
  /\ ret' = NoRet
  /\ backfillFailed' = FALSE
  /\ rebuildFailed' = FALSE
  /\ UNCHANGED <<store, preOpen, ops>>

\* the process is killed between two statements of migrate
Crash ==
  /\ pc \in MigratePcs
  /\ crashes < MaxCrashes
  /\ crashes' = crashes + 1
  /\ handle' = "killed"
  /\ Disconnect

\* the constructor threw: main.ts has no handler, the process exits
Exit ==
  /\ pc = "failed"
  /\ handle' = "leaked"
  /\ UNCHANGED crashes
  /\ Disconnect

\* db.close() at the end of main.ts
Close ==
  /\ pc = "ready"
  /\ handle' = "closed"
  /\ UNCHANGED crashes
  /\ Disconnect

(* ---------------- Database.getOrAddWriter ---------------- *)

WriterNames == {"A", "N"}

WriterTypes == {"author", "translator"}

Max(S) == CHOOSE x \in S : \A y \in S : y <= x

\* INTEGER PRIMARY KEY AUTOINCREMENT; no row is ever deleted
NextId(t) == IF t.rows = {} THEN 1 ELSE Max(Ids(t)) + 1

\* SELECT id FROM writers WHERE name = ? AND type = ?
ExistingWriter(writers, name, type) ==
  {w \in writers.rows : w.name = name /\ w.type = type}

\* writers.name TEXT NOT NULL UNIQUE, type CHECK (type IN (...))
InsertWriterOk(writers, name, type) ==
  /\ writers.exists
  /\ type \in WriterTypes
  /\ \A w \in writers.rows : w.name # name

getOrAddWriter(name, type) ==
  LET writers == store.writers
      existing == ExistingWriter(writers, name, type)
      call == [op |-> "getOrAddWriter", name |-> name, type |-> type,
               book_id |-> 0, writer_id |-> 0]
  IN /\ pc = "ready"
     /\ ops < MaxOps
     /\ IF writers.exists /\ existing # {}
        THEN /\ ret' = call @@ [ok |-> TRUE, id |-> Max({w.id : w \in existing})]
             /\ UNCHANGED <<store, err, ops>>
        ELSE IF InsertWriterOk(writers, name, type)
             THEN /\ store' = [store EXCEPT !.writers.rows =
                                  writers.rows \cup
                                  {[id |-> NextId(writers), name |-> name,
                                    type |-> type]}]
                  /\ ret' = call @@ [ok |-> TRUE, id |-> NextId(writers)]
                  /\ ops' = ops + 1
                  /\ UNCHANGED err
             ELSE /\ ret' = call @@ [ok |-> FALSE, id |-> 0]
                  /\ err' = "SqliteError"
                  /\ UNCHANGED <<store, ops>>
     /\ UNCHANGED <<foreign_keys, pc, oldVersion, columnNames, preOpen, crashes, handle,
                    backfillFailed, rebuildFailed>>

(* ---------------- Database.addBookWriterLink ---------------- *)

\* an argument the caller left out is undefined
UndefInt == -1

UndefText == "undefined"

\* value ?? null
Undef(c) == IF c \in IntCols THEN UndefInt ELSE UndefText

OrNull(v, c) == IF v = Undef(c) THEN NullOf(c) ELSE v

Call(op, ok, id) ==
  [op |-> op, name |-> "", type |-> "", book_id |-> 0, writer_id |-> 0,
   ok |-> ok, id |-> id]

\* the ids a caller may pass: those of the rows there can be, and one beyond
ArgIds == 1..(MaxBooks + 1)

\* INSERT INTO book_writers (book_id, writer_id, type) VALUES (?, ?, ?)
addBookWriterLink(bookId, writerId, type) ==
  LET row == [book_id |-> bookId, writer_id |-> writerId, type |-> type]
      ok == type \in WriterTypes /\ InsertLinksOk(store, {row}, foreign_keys)
  IN /\ pc = "ready"
     /\ ops < MaxOps
     /\ ret' = [Call("addBookWriterLink", ok, 0) EXCEPT
                  !.type = type, !.book_id = bookId, !.writer_id = writerId]
     /\ IF ok
        THEN store' = InsertLinks(store, {row}) /\ ops' = ops + 1 /\ UNCHANGED err
        ELSE err' = "SqliteError" /\ UNCHANGED <<store, ops>>
     /\ UNCHANGED <<foreign_keys, pc, oldVersion, columnNames, preOpen, crashes, handle,
                    backfillFailed, rebuildFailed>>

(* ---------------- Database.addBook ---------------- *)

BookInputs ==
  {[title |-> t, pages |-> UndefInt, pub_year |-> y, genre |-> UndefText]
     : t \in {"T", "U"}, y \in {1965, 1970}}
  \cup {[title |-> "T", pages |-> 412, pub_year |-> 1965, genre |-> "G"]}

\* INSERT INTO books (title, pages, pub_year, genre): the four columns must be
\* there and no other column may be NOT NULL without a default (the v1 author)
AddBookOk(books, book) ==
  /\ books.exists
  /\ BooksNewCols \subseteq books.cols
  /\ "author" \notin books.cols
  /\ OrNull(book.title, "title") # "NULL"

BookRow(books, book) ==
  [c \in books.cols |->
     IF c = "id" THEN NextId(books)
     ELSE IF c \in {"title", "pages", "pub_year", "genre"} THEN OrNull(book[c], c)
     ELSE NullOf(c)]

addBook(book) ==
  LET ok == AddBookOk(store.books, book)
  IN /\ pc = "ready"
     /\ ops < MaxOps
     /\ Cardinality(store.books.rows) < MaxBooks
     /\ IF ok
        THEN /\ store' = [store EXCEPT !.books.rows =
                            store.books.rows \cup {BookRow(store.books, book)}]
             /\ ret' = Call("addBook", TRUE, NextId(store.books))
             /\ ops' = ops + 1
             /\ UNCHANGED err
        ELSE /\ ret' = Call("addBook", FALSE, 0)
             /\ err' = "SqliteError"
             /\ UNCHANGED <<store, ops>>
     /\ UNCHANGED <<foreign_keys, pc, oldVersion, columnNames, preOpen, crashes, handle,
                    backfillFailed, rebuildFailed>>

(* ---------------- Database.addReview, updateBook, updateReview ---------------- *)

MaxReviews == 2

\* reviews are added and rows are updated while fewer writes than this were made
MaxEdits == 4

\* new Date().toISOString().split("T")[0]
Today == "2021-01-01"

ReviewInputs ==
  {[book_id |-> b, date_read |-> d, rating |-> r, review |-> "R"]
     : b \in ArgIds, d \in {UndefText}, r \in {3, 6}}
    \cup {[book_id |-> 1, date_read |-> "2020-01-01", rating |-> 3, review |-> "R"]}

\* FOREIGN KEY(book_id) REFERENCES books(id) left out of the check
ReviewForeignKeyOk_off(st, bookId, fk) == TRUE

\* FOREIGN KEY(book_id) REFERENCES books(id), enforced while foreign_keys is ON
ReviewForeignKeyOk(st, bookId, fk) ==
  fk => (st.books.exists /\ bookId \in Ids(st.books))

\* book_id INTEGER NOT NULL; rating INTEGER carries no CHECK
AddReviewOk(st, review, fk) ==
  /\ st.reviews.exists
  /\ review.book_id # 0
  /\ ReviewForeignKeyOk(st, review.book_id, fk)

ReviewRow(reviews, review) ==
  [id        |-> NextId(reviews),
   book_id   |-> review.book_id,
   date_read |-> IF review.date_read = UndefText THEN Today ELSE review.date_read,
   rating    |-> review.rating,
   review    |-> review.review]

addReview(review) ==
  LET ok == AddReviewOk(store, review, foreign_keys)
  IN /\ pc = "ready"
     /\ ops < MaxEdits
     /\ Cardinality(store.reviews.rows) < MaxReviews
     /\ IF ok
        THEN /\ store' = [store EXCEPT !.reviews.rows =
                            store.reviews.rows \cup {ReviewRow(store.reviews, review)}]
             /\ ret' = Call("addReview", TRUE, NextId(store.reviews))
             /\ ops' = ops + 1
             /\ UNCHANGED err
        ELSE /\ ret' = Call("addReview", FALSE, 0)
             /\ err' = "SqliteError"
             /\ UNCHANGED <<store, ops>>
     /\ UNCHANGED <<foreign_keys, pc, oldVersion, columnNames, preOpen, crashes, handle,
                    backfillFailed, rebuildFailed>>

BookFields == {"title", "pages", "pub_year", "genre"}

ReviewFields == {"book_id", "date_read", "rating", "review"}

\* the genre test left out
UpdateParts_noGenre(patch, fields) ==
  {f \in fields \ {"genre"} : patch[f] # Undef(f)}

\* if (x.f !== undefined) updateParts.push("f = ?")
UpdateParts(patch, fields) == {f \in fields : patch[f] # Undef(f)}

\* UPDATE t SET f = ?, ... WHERE id = ?
UpdateRows(rows, id, patch, parts) ==
  {IF r.id = id
   THEN [c \in DOMAIN r |-> IF c \in parts THEN patch[c] ELSE r[c]]
   ELSE r : r \in rows}

NoBookPatch ==
  [title |-> UndefText, pages |-> UndefInt, pub_year |-> UndefInt,
   genre |-> UndefText]

FullBookPatch == [title |-> "V", pages |-> 99, pub_year |-> 1999, genre |-> "H"]

\* a patch that sets the fields of present to the values of full
Patch(none, full, present) ==
  [f \in DOMAIN none |-> IF f \in present THEN full[f] ELSE none[f]]

\* the empty patch, each field alone, and all the fields
PatchShapes(fields) == {{}, fields} \cup {{f} : f \in fields}

BookPatches ==
  {Patch(NoBookPatch, FullBookPatch, present) : present \in PatchShapes(BookFields)}

updateBook(bookId, book) ==
  LET parts == UpdateParts(book, BookFields)
  IN /\ pc = "ready"
     /\ ops < MaxEdits
     /\ IF parts = {}
        THEN /\ ret' = Call("updateBook", TRUE, 0)
             /\ UNCHANGED <<store, err, ops>>
        ELSE IF store.books.exists
        THEN /\ store' = [store EXCEPT !.books.rows =
                            UpdateRows(store.books.rows, bookId, book, parts)]
             /\ ret' = Call("updateBook", TRUE, 0)
             /\ ops' = ops + 1
             /\ UNCHANGED err
        ELSE /\ ret' = Call("updateBook", FALSE, 0)
             /\ err' = "SqliteError"
             /\ UNCHANGED <<store, ops>>
     /\ UNCHANGED <<foreign_keys, pc, oldVersion, columnNames, preOpen, crashes, handle,
                    backfillFailed, rebuildFailed>>

NoReviewPatch ==
  [book_id |-> UndefInt, date_read |-> UndefText, rating |-> UndefInt,
   review |-> UndefText]

FullReviewPatch(bookId) ==
  [book_id |-> bookId, date_read |-> "2022-02-02", rating |-> 9, review |-> "S"]

ReviewPatches ==
  {Patch(NoReviewPatch, FullReviewPatch(b), present)
     : b \in {MaxBooks, MaxBooks + 1}, present \in PatchShapes(ReviewFields)}

\* the UPDATE fails when a row it changes would break the foreign key
UpdateReviewOk(st, reviewId, review, parts, fk) ==
  /\ st.reviews.exists
  /\ ("book_id" \in parts /\ reviewId \in Ids(st.reviews)) =>
       /\ review.book_id # 0
       /\ ReviewForeignKeyOk(st, review.book_id, fk)

updateReview(reviewId, review) ==
  LET parts == UpdateParts(review, ReviewFields)
  IN /\ pc = "ready"
     /\ ops < MaxEdits
     /\ IF parts = {}
        THEN /\ ret' = Call("updateReview", TRUE, 0)
             /\ UNCHANGED <<store, err, ops>>
        ELSE IF UpdateReviewOk(store, reviewId, review, parts, foreign_keys)
        THEN /\ store' = [store EXCEPT !.reviews.rows =
                            UpdateRows(store.reviews.rows, reviewId, review, parts)]
             /\ ret' = Call("updateReview", TRUE, 0)
             /\ ops' = ops + 1
             /\ UNCHANGED err
        ELSE /\ ret' = Call("updateReview", FALSE, 0)
             /\ err' = "SqliteError"
             /\ UNCHANGED <<store, ops>>
     /\ UNCHANGED <<foreign_keys, pc, oldVersion, columnNames, preOpen, crashes, handle,
                    backfillFailed, rebuildFailed>>

(* ---------------- Database.getBooks ---------------- *)

\* SQLite compares text bytewise: the texts of the model in that order; NULL
\* (and any other text, which the model never stores) comes first
Collation ==
  <<"2020-01-01", "2021-01-01", "2022-02-02", "A", "B", "C", "D", "N", "Tr", "author",
    "translator">>

TextRank(s) ==
  IF \E i \in 1..Len(Collation) : Collation[i] = s
  THEN CHOOSE i \in 1..Len(Collation) : Collation[i] = s
  ELSE 0

NoFilter == [id |-> UndefInt, year |-> UndefInt]

\* getBooks({ id })
IdFilter(i) == [id |-> i, year |-> UndefInt]

\* getBooks({ year })
YearFilter(y) == [id |-> UndefInt, year |-> y]

\* a JavaScript number used as a condition: undefined and 0 are false
Truthy(n) == n # UndefInt /\ n # 0

\* filter?.id ? "WHERE b.id = ?" : filter?.year ? "WHERE b.pub_year = ?" : ""
Where(filter, b) ==
  IF Truthy(filter.id) THEN b.id = filter.id
  ELSE IF Truthy(filter.year) THEN b.pub_year # 0 /\ b.pub_year = filter.year
  ELSE TRUE

JoinRow(b, wid, wname, wtype) ==
  [id |-> b.id, title |-> b.title, pages |-> b.pages, pub_year |-> b.pub_year,
   genre |-> b.genre, writer_id |-> wid, writer_name |-> wname,
   writer_type |-> wtype]

\* books b LEFT JOIN book_writers bw ON b.id = bw.book_id
\*         LEFT JOIN writers w ON bw.writer_id = w.id, SELECT DISTINCT:
\* the selected writer columns are w.id, w.name and w.type
JoinRowsOf(st, b) ==
  LET links == {l \in st.book_writers.rows : l.book_id = b.id}
      ws(l) == {w \in st.writers.rows : w.id = l.writer_id}
  IN IF links = {} THEN {JoinRow(b, 0, "NULL", "NULL")}
     ELSE UNION {IF ws(l) = {} THEN {JoinRow(b, 0, "NULL", "NULL")}
                 ELSE {JoinRow(b, w.id, w.name, w.type) : w \in ws(l)}
                   : l \in links}

JoinRows(st, filter) ==
  UNION {JoinRowsOf(st, b) : b \in {x \in st.books.rows : Where(filter, x)}}

\* ordered by the writer's id where the name was meant
RowLeq_byWriterId(a, b) ==
  \/ a.id < b.id
  \/ /\ a.id = b.id
     /\ \/ TextRank(a.writer_type) < TextRank(b.writer_type)
        \/ /\ TextRank(a.writer_type) = TextRank(b.writer_type)
           /\ a.writer_id <= b.writer_id

\* ORDER BY b.id, w.type, w.name (NULL sorts first)
RowLeq(a, b) ==
  \/ a.id < b.id
  \/ /\ a.id = b.id
     /\ \/ TextRank(a.writer_type) < TextRank(b.writer_type)
        \/ /\ TextRank(a.writer_type) = TextRank(b.writer_type)
           /\ TextRank(a.writer_name) <= TextRank(b.writer_name)

RECURSIVE OrderRows(_)
OrderRows(S) ==
  IF S = {} THEN <<>>
  ELSE LET m == CHOOSE x \in S : \A y \in S : RowLeq(x, y)
       IN <<m>> \o OrderRows(S \ {m})

\* the sub-query ordered without DESC
ReviewLeqDesc_asc(x, y) ==
  \/ TextRank(x.date_read) < TextRank(y.date_read)
  \/ TextRank(x.date_read) = TextRank(y.date_read) /\ x.id <= y.id

\* SELECT review, rating, date_read FROM reviews WHERE book_id = ?
\*   ORDER BY date_read DESC (rows of one date in rowid order)
ReviewLeqDesc(x, y) ==
  \/ TextRank(x.date_read) > TextRank(y.date_read)
  \/ TextRank(x.date_read) = TextRank(y.date_read) /\ x.id <= y.id

RECURSIVE ReviewsDesc(_)
ReviewsDesc(S) ==
  IF S = {} THEN <<>>
  ELSE LET m == CHOOSE x \in S : \A y \in S : ReviewLeqDesc(x, y)
       IN <<m>> \o ReviewsDesc(S \ {m})

ReviewView(r) == [review |-> r.review, rating |-> r.rating, date_read |-> r.date_read]

BookReviews(st, bookId) ==
  LET rs == ReviewsDesc({r \in st.reviews.rows : r.book_id = bookId})
  IN [i \in 1..Len(rs) |-> ReviewView(rs[i])]

\* booksMap.set(bookId, {...}) on the first row of a book
NewView(st, row) ==
  [id |-> row.id, title |-> row.title, pages |-> row.pages,
   pub_year |-> row.pub_year, genre |-> row.genre, authors |-> <<>>,
   translators |-> <<>>, reviews |-> BookReviews(st, row.id)]

\* if (writer_type === "author") authors.push else if ("translator") translators.push
PushWriter(view, row) ==
  LET writer == [id |-> row.writer_id, name |-> row.writer_name]
  IN IF row.writer_id = 0 THEN view
     ELSE IF row.writer_type = "author"
          THEN [view EXCEPT !.authors = Append(@, writer)]
     ELSE IF row.writer_type = "translator"
          THEN [view EXCEPT !.translators = Append(@, writer)]
     ELSE view

\* the test of the Map left out: every row starts a view
HasView_never(acc, id) == FALSE

\* booksMap.has(bookId)
HasView(acc, id) == \E i \in 1..Len(acc) : acc[i].id = id

\* for (const row of rows): the Map keeps the books in insertion order
RECURSIVE Aggregate(_, _, _)
Aggregate(st, rows, acc) ==
  IF rows = <<>> THEN acc
  ELSE LET row == Head(rows)
           has == HasView(acc, row.id)
           acc1 == IF has THEN acc ELSE Append(acc, NewView(st, row))
           acc2 == [i \in 1..Len(acc1) |->
                      IF acc1[i].id = row.id THEN PushWriter(acc1[i], row)
                      ELSE acc1[i]]
       IN Aggregate(st, Tail(rows), acc2)

getBooks(st, filter) == Aggregate(st, OrderRows(JoinRows(st, filter)), <<>>)

(* ---------------- Database.getReviews ---------------- *)

\* the query ordered with DESC
ReviewLeqAsc_desc(x, y) ==
  \/ TextRank(x.date_read) > TextRank(y.date_read)
  \/ TextRank(x.date_read) = TextRank(y.date_read) /\ x.id <= y.id

\* ORDER BY date_read (rows of one date in rowid order)
ReviewLeqAsc(x, y) ==
  \/ TextRank(x.date_read) < TextRank(y.date_read)
  \/ TextRank(x.date_read) = TextRank(y.date_read) /\ x.id <= y.id

RECURSIVE ReviewsAsc(_)
ReviewsAsc(S) ==
  IF S = {} THEN <<>>
  ELSE LET m == CHOOSE x \in S : \A y \in S : ReviewLeqAsc(x, y)
       IN <<m>> \o ReviewsAsc(S \ {m})

\* SELECT id, book_id, date_read, rating, review FROM reviews WHERE book_id = ?
getReviews(st, bookId) ==
  ReviewsAsc({r \in st.reviews.rows : r.book_id = bookId})

(* ---------------- Database.getBookWriters ---------------- *)

\* SELECT w.name, bw.type FROM writers w JOIN book_writers bw ON w.id = bw.writer_id
\*   WHERE bw.book_id = ? ORDER BY bw.type, w.name
BookWriterLeq(a, b) ==
  \/ TextRank(a.type) < TextRank(b.type)
  \/ TextRank(a.type) = TextRank(b.type) /\ TextRank(a.name) <= TextRank(b.name)

RECURSIVE OrderBookWriters(_)
OrderBookWriters(S) ==
  IF S = {} THEN <<>>
  ELSE LET m == CHOOSE x \in S : \A y \in S : BookWriterLeq(x, y)
       IN <<m>> \o OrderBookWriters(S \ {m})

getBookWriters(st, bookId) ==
  OrderBookWriters(
    {[name |-> w.name, type |-> l.type]
       : <<w, l>> \in {p \in st.writers.rows \X st.book_writers.rows :
                         p[1].id = p[2].writer_id /\ p[2].book_id = bookId}})

(* ---------------- addBookWithReview (lib/db-operations) ---------------- *)

\* for (const name of names) { id = db.getOrAddWriter(name, type);
\*                             db.addBookWriterLink(bookId, id, type); }
\* every statement is committed as it runs; the loop stops at the first throw
RECURSIVE LinkWriters(_, _, _, _, _)
LinkWriters(st, bookId, names, type, fk) ==
  IF names = <<>> THEN [store |-> st, ok |-> TRUE]
  ELSE LET name == Head(names)
           existing == ExistingWriter(st.writers, name, type)
           found == st.writers.exists /\ existing # {}
           id == IF found THEN Max({w.id : w \in existing}) ELSE NextId(st.writers)
           st1 == IF found THEN st
                  ELSE [st EXCEPT !.writers.rows =
                          @ \cup {[id |-> id, name |-> name, type |-> type]}]
           row == [book_id |-> bookId, writer_id |-> id, type |-> type]
       IN IF ~found /\ ~InsertWriterOk(st.writers, name, type)
          THEN [store |-> st, ok |-> FALSE]
          ELSE IF ~InsertLinksOk(st1, {row}, fk)
          THEN [store |-> st1, ok |-> FALSE]
          ELSE LinkWriters(InsertLinks(st1, {row}), bookId, Tail(names), type, fk)

\* the store and the outcome of the try block, statement after statement
WithReview(st, in, fk) ==
  LET bookId == NextId(st.books)
      st1 == [st EXCEPT !.books.rows = @ \cup {BookRow(st.books, in)}]
      a == LinkWriters(st1, bookId, in.authors, "author", fk)
      t == LinkWriters(a.store, bookId, in.translators, "translator", fk)
      review == [book_id |-> bookId, date_read |-> in.review.date_read,
                 rating |-> in.review.rating, review |-> in.review.review]
  IN IF ~AddBookOk(st.books, in) THEN [store |-> st, ok |-> FALSE, id |-> 0]
     ELSE IF ~a.ok THEN [store |-> a.store, ok |-> FALSE, id |-> 0]
     ELSE IF ~t.ok THEN [store |-> t.store, ok |-> FALSE, id |-> 0]
     ELSE IF ~in.review.given THEN [store |-> t.store, ok |-> TRUE, id |-> bookId]
     ELSE IF ~AddReviewOk(t.store, review, fk)
     THEN [store |-> t.store, ok |-> FALSE, id |-> 0]
     ELSE [store |-> [t.store EXCEPT !.reviews.rows =
                        @ \cup {ReviewRow(t.store.reviews, review)}],
           ok |-> TRUE, id |-> bookId]

WithReviewInputs ==
  {[title |-> "T", pages |-> UndefInt, pub_year |-> 1965, genre |-> UndefText,
    authors |-> a, translators |-> t,
    review |-> [given |-> g, date_read |-> "2020-01-01", rating |-> 3,
                review |-> "R"]]
     : a \in {<<"A">>, <<"A", "A">>, <<"A", "N">>}, t \in {<<>>, <<"A">>},
       g \in BOOLEAN}

addBookWithReview(in) ==
  LET res == WithReview(store, in, foreign_keys)
  IN /\ pc = "ready"
     /\ ops < MaxOps
     /\ Cardinality(store.books.rows) < MaxBooks
     /\ Cardinality(store.reviews.rows) < MaxReviews
     /\ store' = res.store
     /\ ret' = Call("addBookWithReview", res.ok, res.id)
     /\ err' = IF res.ok THEN err ELSE "DATABASE"
     /\ ops' = ops + 1
     /\ UNCHANGED <<foreign_keys, pc, oldVersion, columnNames, preOpen, crashes,
                    handle, backfillFailed, rebuildFailed>>

(* ---------------- utils/markdown ---------------- *)

\* a markdown text, by the lines it holds: "" where a text line is missing or
\* blank, 0 where a number line is missing or holds no digits ("_")
NoLine == ""

NoDigits == 0

DatePlaceholder == "____-__-__"

ReviewPlaceholder == "write a review"

\* JS truthiness of a text: null, undefined and "" are falsy
TruthyText(t) == t \notin {"", "NULL", UndefText}

\* bookReviewToMarkdown: a falsy field gives no line, or its placeholder; the
\* callers pass no writers
bookReviewToMarkdown(review) ==
  [title     |-> IF TruthyText(review.title) THEN review.title ELSE NoLine,
   authors   |-> <<>>,
   genre     |-> IF TruthyText(review.genre) THEN review.genre ELSE NoLine,
   pub_year  |-> IF Truthy(review.pub_year) THEN review.pub_year ELSE NoDigits,
   pages     |-> IF Truthy(review.pages) THEN review.pages ELSE NoDigits,
   date_read |-> IF TruthyText(review.date_read) THEN review.date_read
                 ELSE DatePlaceholder,
   rating    |-> IF Truthy(review.rating) THEN review.rating ELSE NoDigits,
   review    |-> IF TruthyText(review.review) THEN review.review
                 ELSE ReviewPlaceholder]

\* parseMarkdownReview: a field is set when its line matches; the names under
\* the author line go to writers, no property author is ever set
parseMarkdownReview(markdown) ==
  [title     |-> IF markdown.title = NoLine THEN UndefText ELSE markdown.title,
   author    |-> UndefText,
   writers   |-> [i \in DOMAIN markdown.authors |->
                    [name |-> markdown.authors[i], type |-> "author"]],
   genre     |-> IF markdown.genre = NoLine THEN UndefText ELSE markdown.genre,
   pub_year  |-> IF markdown.pub_year = NoDigits THEN UndefInt
                 ELSE markdown.pub_year,
   pages     |-> IF markdown.pages = NoDigits THEN UndefInt ELSE markdown.pages,
   date_read |-> IF markdown.date_read = NoLine THEN UndefText
                 ELSE markdown.date_read,
   rating    |-> IF markdown.rating = NoDigits THEN UndefInt ELSE markdown.rating,
   review    |-> IF markdown.review = NoLine THEN UndefText ELSE markdown.review]

(* ---------------- the statements of updateBook and updateReview ---------------- *)

\* the store after db.updateBook(bookId, book)
BookUpdated(st, bookId, book) ==
  LET parts == UpdateParts(book, BookFields)
  IN IF parts = {} THEN st
     ELSE [st EXCEPT !.books.rows = UpdateRows(@, bookId, book, parts)]

\* the store after a db.updateReview(reviewId, review) that does not throw
ReviewUpdated(st, reviewId, review) ==
  LET parts == UpdateParts(review, ReviewFields)
  IN IF parts = {} THEN st
     ELSE [st EXCEPT !.reviews.rows = UpdateRows(@, reviewId, review, parts)]

(* ---------------- handleEditReviewCommand ---------------- *)

\* what the user does in the editor; "cancel" is the editor failing
Edits == {"cancel", "same", "review", "title", "pages", "blank"}

Editor(text, edit) ==
  CASE edit = "review" -> [text EXCEPT !.review = "S"]
    [] edit = "title"  -> [text EXCEPT !.title = "V"]
    [] edit = "pages"  -> [text EXCEPT !.pages = 99]
    [] edit = "blank"  -> [text EXCEPT !.rating = NoDigits]
    [] OTHER           -> text

\* the store after handleEditReviewCommand(db, bookId)
EditReview(st, bookId, edit) ==
  LET books == getBooks(st, IdFilter(bookId))
      reviews == getReviews(st, bookId)
  IN IF Len(books) = 0 \/ Len(reviews) = 0 THEN st
     ELSE
       LET book == books[1]
           review == reviews[1]
           reviewData == [title |-> book.title, author |-> UndefText,
                          genre |-> book.genre, pub_year |-> book.pub_year,
                          pages |-> book.pages, date_read |-> review.date_read,
                          rating |-> review.rating, review |-> review.review]
           markdownText == bookReviewToMarkdown(reviewData)
           editedText == Editor(markdownText, edit)
           updated == parseMarkdownReview(editedText)
           st1 == ReviewUpdated(st, review.id,
                    [book_id |-> UndefInt, date_read |-> updated.date_read,
                     rating |-> updated.rating, review |-> updated.review])
       IN IF edit = "cancel" \/ editedText = markdownText THEN st
          ELSE IF ~(Truthy(updated.rating) /\ TruthyText(updated.review)) THEN st
          ELSE IF \/ TruthyText(updated.title) \/ TruthyText(updated.author)
                  \/ TruthyText(updated.genre) \/ Truthy(updated.pub_year)
                  \/ Truthy(updated.pages)
          THEN BookUpdated(st1, bookId,
                 [title |-> updated.title, genre |-> updated.genre,
                  pub_year |-> updated.pub_year, pages |-> updated.pages])
          ELSE st1

handleEditReviewCommand(bookId, edit) ==
  /\ pc = "ready"
  /\ ops < MaxEdits
  /\ store' = EditReview(store, bookId, edit)
  /\ ret' = Call("handleEditReviewCommand", TRUE, 0)
  /\ ops' = ops + 1
  /\ UNCHANGED <<foreign_keys, pc, oldVersion, columnNames, err, preOpen, crashes,
                 handle, backfillFailed, rebuildFailed>>

(* ---------------- handleImportMarkdownCommand ---------------- *)

\* book.author of a view that getBooks returns: the views have no such
\* property (db.ts:340-349), the read gives undefined
ViewAuthor(view) == UndefText

\* addOrUpdateBook(db, data): the store after it and the id it returns
addOrUpdateBook(st, data) ==
  LET allBooks == getBooks(st, NoFilter)
      Same(book) == book.title = data.title /\ ViewAuthor(book) = data.author
      existingBooks == SelectSeq(allBooks, Same)
      book == [title |-> data.title, genre |-> data.genre,
               pub_year |-> data.pub_year, pages |-> data.pages]
  IN IF Len(existingBooks) > 0
     THEN [store |-> BookUpdated(st, existingBooks[1].id,
                       [book EXCEPT !.title = UndefText]),
           ok |-> TRUE, id |-> existingBooks[1].id]
     ELSE IF AddBookOk(st.books, book)
     THEN [store |-> [st EXCEPT !.books.rows = @ \cup {BookRow(st.books, book)}],
           ok |-> TRUE, id |-> NextId(st.books)]
     ELSE [store |-> st, ok |-> FALSE, id |-> 0]

\* addOrUpdateReview(db, bookId, data)
addOrUpdateReview(st, bookId, data, fk) ==
  LET existingReviews == getReviews(st, bookId)
      reviewData == [book_id |-> bookId, rating |-> data.rating,
                     date_read |-> data.date_read,
                     review |-> IF TruthyText(data.review) THEN data.review ELSE ""]
  IN IF Len(existingReviews) > 0
     THEN [store |-> ReviewUpdated(st, existingReviews[1].id, reviewData),
           ok |-> TRUE]
     ELSE IF AddReviewOk(st, reviewData, fk)
     THEN [store |-> [st EXCEPT !.reviews.rows =
                        @ \cup {ReviewRow(st.reviews, reviewData)}],
           ok |-> TRUE]
     ELSE [store |-> st, ok |-> FALSE]

\* the body of the loop over the files: one file, whose text is content
ImportFile(st, content, fk) ==
  LET reviewData == parseMarkdownReview(content)
      b == addOrUpdateBook(st, reviewData)
      r == addOrUpdateReview(b.store, b.id, reviewData, fk)
  IN IF ~TruthyText(reviewData.title) \/ ~TruthyText(reviewData.author)
     THEN [store |-> st, ok |-> FALSE]
     ELSE IF ~b.ok THEN [store |-> b.store, ok |-> FALSE]
     ELSE IF Truthy(reviewData.rating) /\ TruthyText(reviewData.date_read)
     THEN r
     ELSE [store |-> b.store, ok |-> TRUE]

\* the files of the import directory
ImportFiles ==
  {[title |-> t, authors |-> <<"A">>, genre |-> g, pub_year |-> 1965,
    pages |-> 412, date_read |-> "2020-01-01", rating |-> 3, review |-> "R"]
     : t \in {"T", NoLine}, g \in {"G", "H"}}

handleImportMarkdownCommand(content) ==
  LET res == ImportFile(store, content, foreign_keys)
  IN /\ pc = "ready"
     /\ ops < MaxOps
     /\ Cardinality(res.store.books.rows) <= MaxBooks
     /\ Cardinality(res.store.reviews.rows) <= MaxReviews
     /\ store' = res.store
     /\ ret' = Call("handleImportMarkdownCommand", res.ok, 0)
     /\ ops' = ops + 1
     /\ UNCHANGED <<foreign_keys, pc, oldVersion, columnNames, err, preOpen,
                    crashes, handle, backfillFailed, rebuildFailed>>

Next ==
  \/ Open
  \/ MigrateForeignKeysOn
  \/ MigrateReadVersion
  \/ V1CreateBooks
  \/ V1CreateReviews
  \/ V1Version
  \/ V2Translator
  \/ V2Version
  \/ V3CreateWriters
  \/ V3TableInfo
  \/ V3AuthorId
  \/ V3TranslatorId
  \/ V3Version
  \/ V4CreateBookWriters
  \/ V4BackfillAuthor
  \/ V4BackfillTranslator
  \/ V4ForeignKeysOff
  \/ V4CreateBooksNew
  \/ V4Copy
  \/ V4Drop
  \/ V4Rename
  \/ V4ForeignKeysOn
  \/ V4Version
  \/ MigrateAgain
  \/ Crash
  \/ Exit
  \/ Close
  \/ \E name \in WriterNames, type \in WriterTypes : getOrAddWriter(name, type)

Spec == Init /\ [][Next]_vars

(* ---------------- the catalogue on a migrated store ---------------- *)

\* the store that migrating the empty file leaves: the four tables of
\* version 4, without rows
FreshStoreV4 ==
  [user_version |-> 4,
   books        |-> CreateTableIfNotExists(NoTable, BooksNewCols),
   books_new    |-> NoTable,
   reviews      |-> CreateTableIfNotExists(NoTable, ReviewsCols),
   writers      |-> V3Writers(NoTable),
   book_writers |-> CreateTableIfNotExists(NoTable, BookWritersCols)]

InitV4 ==
  /\ store = FreshStoreV4
  /\ foreign_keys = FALSE
  /\ pc = "closed"
  /\ oldVersion = 0
  /\ columnNames = {}
  /\ err = "none"
  /\ ret = NoRet
  /\ preOpen = store
  /\ crashes = 0
  /\ backfillFailed = FALSE
  /\ rebuildFailed = FALSE
  /\ ops = 0
  /\ handle = "none"

NextCatalog ==
  \/ Open
  \/ MigrateForeignKeysOn
  \/ MigrateReadVersion
  \/ \E book \in BookInputs : addBook(book)
  \/ \E name \in WriterNames, type \in WriterTypes : getOrAddWriter(name, type)
  \/ \E b \in ArgIds, w \in ArgIds, type \in WriterTypes : addBookWriterLink(b, w, type)

SpecCatalog == InitV4 /\ [][NextCatalog]_vars

ReviewIds == 1..(MaxReviews + 1)

\* the books that get reviews: the fully described book, under either title
ReviewedBooks ==
  {[title |-> t, pages |-> 412, pub_year |-> 1965, genre |-> "G"] : t \in {"T", "U"}}

NextReviews ==
  \/ Open
  \/ MigrateForeignKeysOn
  \/ MigrateReadVersion
  \/ \E book \in ReviewedBooks : addBook(book)
  \/ \E review \in ReviewInputs : addReview(review)
  \/ \E bookId \in ArgIds, book \in BookPatches : updateBook(bookId, book)
  \/ \E reviewId \in ReviewIds, review \in ReviewPatches : updateReview(reviewId, review)

SpecReviews == InitV4 /\ [][NextReviews]_vars

(* ---------------- the commands on a migrated store ---------------- *)

\* titles a caller can hand to addBook: a text, the empty text, none
TitleInputs ==
  {[title |-> t, pages |-> UndefInt, pub_year |-> UndefInt, genre |-> UndefText]
     : t \in {"T", "", UndefText}}

NextCommands ==
  \/ Open
  \/ MigrateForeignKeysOn
  \/ MigrateReadVersion
  \/ \E book \in TitleInputs : addBook(book)
  \/ \E in \in WithReviewInputs : addBookWithReview(in)
  \/ \E bookId \in 0..MaxBooks, edit \in Edits : handleEditReviewCommand(bookId, edit)
  \/ \E content \in ImportFiles : handleImportMarkdownCommand(content)

SpecCommands == InitV4 /\ [][NextCommands]_vars

TypeOK ==
  /\ pc \in MigratePcs \cup {"closed", "ready", "failed"}
  /\ store.user_version \in 0..4
  /\ foreign_keys \in BOOLEAN
  /\ handle \in {"none", "open", "closed", "leaked", "killed"}
  /\ handle = "open" <=> pc # "closed"

(* ---------------- properties ---------------- *)

RebuildPcs == {"v4_books_new", "v4_copy", "v4_drop", "v4_rename", "v4_fk_on"}

AuthorLinked(st, b) ==
  \E w \in st.writers.rows :
     /\ w.name = b.author
     /\ w.type = "author"
     /\ [book_id |-> b.id, writer_id |-> w.id, type |-> "author"]
          \in st.book_writers.rows

\* C1: when an open of a version-1 store has completed, the store is at
\* version 4, books has no author column, and the legacy author name of every
\* book is the name of a writers row of type author that book_writers links
\* to the book.
C1_LegacyAuthorMigrated ==
  (pc = "ready" /\ preOpen.user_version = 1) =>
     /\ store.user_version = 4
     /\ "author" \notin store.books.cols
     /\ \A b \in preOpen.books.rows : AuthorLinked(store, b)

\* C2: an open that follows a crash inside a migration step does not fail.
C2_ReopenAfterCrashSucceeds == crashes > 0 => pc # "failed"

BooksPreserved(a, b) ==
  /\ b.books.exists
  /\ \A r \in a.books.rows : CopyRow(r) \in {CopyRow(x) : x \in b.books.rows}

\* C4: when an open of a store at version 1..3 completes, every book row the
\* open found is still there with the same id, title, pages, pub_year and
\* genre, the reviews table is unchanged and every book_writers row the open
\* found is still there; and no statement of the books rebuild changes
\* book_writers or reviews.
C4_MigrationLosesNoData ==
  [][/\ (pc \in MigratePcs /\ pc' = "ready" /\ preOpen.user_version \in 1..3) =>
          /\ BooksPreserved(preOpen, store')
          /\ store'.reviews = preOpen.reviews
          /\ preOpen.book_writers.rows \subseteq store'.book_writers.rows
     /\ (pc \in RebuildPcs /\ pc' # "closed") =>
          /\ store'.book_writers = store.book_writers
          /\ store'.reviews = store.reviews]_vars

C4_Witness ==
  /\ pc = "ready"
  /\ preOpen.user_version = 3
  /\ store.user_version = 4
  /\ Cardinality(preOpen.books.rows) = MaxBooks
  /\ store.reviews.rows # {}
  /\ \E l \in store.book_writers.rows : l.type = "author"
  /\ \E l \in store.book_writers.rows : l.type = "translator"

\* C5: every step of the program leaves the version as it is or raises it by
\* exactly one; a migrate that returns leaves the store at version 4; and a
\* migrate that found version 4 never writes the version.
C5_VersionSequence ==
  [][/\ store'.user_version \in {store.user_version, store.user_version + 1}
     /\ (pc \in MigratePcs /\ pc' = "ready") => store'.user_version = 4
     /\ (pc \in MigratePcs /\ preOpen.user_version >= 4) =>
          store'.user_version = store.user_version]_vars

C5_Witness ==
  /\ pc = "ready"
  /\ preOpen.user_version = 0
  /\ store.user_version = 4

\* C6 (as claimed): in every state, version >= 1 implies that books and reviews
\* exist, version >= 3 that writers exists, and version = 4 that book_writers
\* exists and books has exactly the columns id, title, pages, pub_year, genre.
C6_VersionImpliesStructures ==
  /\ store.user_version >= 1 => store.books.exists /\ store.reviews.exists
  /\ store.user_version >= 3 => store.writers.exists
  /\ store.user_version = 4 =>
       /\ store.book_writers.exists
       /\ store.books.exists
       /\ store.books.cols = BooksNewCols

\* C6 (amended): as claimed, except that at version 3 the books table may be
\* missing while books_new stands in for it (between DROP TABLE books and the
\* RENAME of the v4 rebuild, and in a store left by a crash there).
C6_VersionImpliesStructuresOrShadow ==
  /\ store.user_version >= 1 =>
       /\ store.reviews.exists
       /\ store.books.exists \/ (store.user_version = 3 /\ store.books_new.exists)
  /\ store.user_version >= 3 => store.writers.exists
  /\ store.user_version = 4 =>
       /\ store.book_writers.exists
       /\ store.books.exists
       /\ store.books.cols = BooksNewCols

C6_Witness ==
  /\ pc = "closed"
  /\ crashes > 0
  /\ store.user_version = 3
  /\ ~store.books.exists
  /\ store.books_new.rows # {}

\* C7: a migrate that finds the store at version 4 changes nothing in the
\* store: no table, no column, no row and not the version.
C7_SecondMigrateChangesNothing ==
  [][(pc \in MigratePcs /\ preOpen.user_version = 4) =>
        store' = store /\ store' = preOpen]_vars

C7_Witness ==
  /\ pc = "ready"
  /\ preOpen.user_version = 4
  /\ oldVersion = 4
  /\ store = preOpen
  /\ store.books.cols = BooksNewCols
  /\ store.books.rows = {}
  /\ store.book_writers.exists

\* C8: foreign_keys is on in every state of migrate after its first statement
\* and outside the books rebuild, and whenever migrate has returned or thrown.
C8_ForeignKeysOn ==
  pc \in (MigratePcs \ ({"m_fk_on"} \cup RebuildPcs)) \cup {"ready", "failed"}
    => foreign_keys

\* C9: on a store found at version 1, step v2 changes nothing but the version
\* and books has no translator column after it.
C9_V2OnlyVersion ==
  [][(pc \in {"v2_translator", "v2_version"} /\ oldVersion = 1 /\ pc' # "closed") =>
        /\ [store' EXCEPT !.user_version = 0] = [store EXCEPT !.user_version = 0]
        /\ "translator" \notin store'.books.cols]_vars

\* C10: after every call getOrAddWriter(name, type) the call has returned the
\* id of the one writers row with that (name, type); no two writers rows share
\* a (name, type) pair; a call that found the writer left the table unchanged.
C10_GetOrAddWriterOneRow ==
  /\ ret.op = "getOrAddWriter" =>
       /\ ret.ok
       /\ {w.id : w \in ExistingWriter(store.writers, ret.name, ret.type)} = {ret.id}
  /\ \A w1, w2 \in store.writers.rows :
       (w1.name = w2.name /\ w1.type = w2.type) => w1 = w2

\* C11: a call getOrAddWriter(n, "translator") made when writers holds n as an
\* author succeeds and returns the id of a translator row for n, which is not
\* the author's id.
C11_SameNameBothTypes ==
  (/\ ret.op = "getOrAddWriter"
   /\ ret.type = "translator"
   /\ \E a \in store.writers.rows : a.name = ret.name /\ a.type = "author") =>
     /\ ret.ok
     /\ \E w \in store.writers.rows :
          w.name = ret.name /\ w.type = "translator" /\ w.id = ret.id
     /\ \A a \in store.writers.rows :
          (a.name = ret.name /\ a.type = "author") => a.id # ret.id

\* C12: a call addBookWriterLink(book_id, writer_id, type) for a triple that
\* book_writers already holds fails with the store's constraint error and
\* changes nothing in the store.
C12_DuplicateLinkFails ==
  [][(/\ ret'.op = "addBookWriterLink"
      /\ pc = "ready"
      /\ [book_id |-> ret'.book_id, writer_id |-> ret'.writer_id,
          type |-> ret'.type] \in store.book_writers.rows) =>
        /\ ~ret'.ok
        /\ err' = "SqliteError"
        /\ store' = store]_vars

C12_Witness ==
  /\ ret.op = "addBookWriterLink"
  /\ ~ret.ok
  /\ err = "SqliteError"
  /\ [book_id |-> ret.book_id, writer_id |-> ret.writer_id, type |-> ret.type]
       \in store.book_writers.rows

\* C13: addReview with a rating outside 1..5 raises a validation error and
\* persists no row; with a rating in 1..5 for an existing book it succeeds and
\* persists exactly one new row.
C13_AddReviewValidates ==
  [][\A review \in ReviewInputs :
       (ret'.op = "addReview" /\ addReview(review)) =>
         IF review.rating \in 1..5
         THEN review.book_id \in Ids(store.books) =>
                /\ ret'.ok
                /\ store.reviews.rows \subseteq store'.reviews.rows
                /\ Cardinality(store'.reviews.rows) =
                     Cardinality(store.reviews.rows) + 1
         ELSE /\ ~ret'.ok
              /\ err' = "ValidationError"
              /\ store'.reviews = store.reviews]_vars

\* C14: every persisted reviews row has a rating between 1 and 5.
C14_RatingsInRange ==
  \A r \in store.reviews.rows : r.rating \in 1..5

\* C15: every reviews row's book_id is the id of a books row; addReview for a
\* book_id that matches no book, and updateReview that sets the book_id of an
\* existing review to a value that matches no book, fail and leave the store
\* unchanged.
C15_ReviewsReferenceBooks ==
  /\ [](\A r \in store.reviews.rows : r.book_id \in Ids(store.books))
  /\ [][/\ \A review \in ReviewInputs :
             (/\ ret'.op = "addReview"
              /\ review.book_id \notin Ids(store.books)
              /\ addReview(review)) =>
               (~ret'.ok /\ err' = "SqliteError" /\ store' = store)
        /\ \A reviewId \in ReviewIds, review \in ReviewPatches :
             (/\ ret'.op = "updateReview"
              /\ reviewId \in Ids(store.reviews)
              /\ review.book_id # UndefInt
              /\ review.book_id \notin Ids(store.books)
              /\ updateReview(reviewId, review)) =>
               (~ret'.ok /\ err' = "SqliteError" /\ store' = store)]_vars

C15_Witness ==
  /\ pc = "ready"
  /\ ret.op = "updateReview"
  /\ ~ret.ok
  /\ err = "SqliteError"
  /\ store.reviews.rows # {}
  /\ MaxBooks + 1 \notin Ids(store.books)

\* the rows after a patch of the row id: that row has the patch's value in
\* every field the patch holds and its old value elsewhere, other rows are as
\* they were, and no row is added or removed
Patched(before, after, id, patch, fields) ==
  /\ Cardinality(after) = Cardinality(before)
  /\ \A r \in before :
       \E q \in after :
          /\ q.id = r.id
          /\ r.id # id => q = r
          /\ r.id = id =>
               \A f \in DOMAIN r :
                  q[f] = IF f \in fields /\ patch[f] # Undef(f)
                         THEN patch[f] ELSE r[f]

\* C16: a successful updateBook(id, patch) or updateReview(id, patch) changes
\* exactly the fields the patch holds on the row with that id and nothing
\* else in the store; with the empty patch it writes nothing.
C16_SparsePatch ==
  [][/\ \A bookId \in ArgIds, book \in BookPatches :
          (ret'.op = "updateBook" /\ ret'.ok /\ updateBook(bookId, book)) =>
            /\ Patched(store.books.rows, store'.books.rows, bookId, book, BookFields)
            /\ store' = [store EXCEPT !.books.rows = store'.books.rows]
            /\ book = NoBookPatch => (store' = store /\ ops' = ops)
     /\ \A reviewId \in ReviewIds, review \in ReviewPatches :
          (ret'.op = "updateReview" /\ ret'.ok /\ updateReview(reviewId, review)) =>
            /\ Patched(store.reviews.rows, store'.reviews.rows, reviewId, review,
                       ReviewFields)
            /\ store' = [store EXCEPT !.reviews.rows = store'.reviews.rows]
            /\ review = NoReviewPatch => (store' = store /\ ops' = ops)]_vars

C16_Witness ==
  /\ pc = "ready"
  /\ ret.op = "updateReview"
  /\ ret.ok
  /\ \E b \in store.books.rows :
       b.title = "V" /\ b.pages = 412 /\ b.pub_year = 1965 /\ b.genre = "G"
  /\ \E r \in store.reviews.rows :
       r.rating = 9 /\ r.review = "R" /\ r.date_read = Today /\ r.book_id = 1

ViewIds(res) == [i \in 1..Len(res) |-> res[i].id]

Range(f) == {f[i] : i \in DOMAIN f}

ExpectedWriters(st, bookId, type) ==
  {[id |-> w.id, name |-> w.name]
     : w \in {x \in st.writers.rows :
                [book_id |-> bookId, writer_id |-> x.id, type |-> type]
                  \in st.book_writers.rows}}

\* C17: for every id, 0 included, getBooks({id}) is the one view of the book
\* with that id, or the empty list when no book has that id.
C17_GetBooksById ==
  pc = "ready" =>
    \A i \in 0..(MaxBooks + 1) :
       LET res == getBooks(store, IdFilter(i))
       IN IF i \in Ids(store.books)
          THEN Len(res) = 1 /\ res[1].id = i
          ELSE res = <<>>

FilterYears == {0, 1965, 1970}

TitleIdLeq(a, b) ==
  \/ TextRank(a.title) < TextRank(b.title)
  \/ TextRank(a.title) = TextRank(b.title) /\ a.id <= b.id

\* C18: getBooks({year: y}) holds exactly the books whose pub_year
\* is y, each once, ordered by title and, for equal titles, by id.
C18_YearFilterByTitle ==
  pc = "ready" =>
    \A y \in FilterYears :
       LET res == getBooks(store, YearFilter(y))
       IN /\ Range(ViewIds(res)) =
               {b.id : b \in {x \in store.books.rows : y # 0 /\ x.pub_year = y}}
          /\ \A i, j \in 1..Len(res) : i < j => TitleIdLeq(res[i], res[j])

NamesAscending(ws) ==
  \A i, j \in 1..Len(ws) : i < j => TextRank(ws[i].name) < TextRank(ws[j].name)

\* C19: getBooks() holds every book of the store once, in ascending id order
\* (so the empty list for a store without books), and in every view the
\* authors and the translators are each in ascending order of name.
C19_AllBooksOrdered ==
  pc = "ready" =>
    LET res == getBooks(store, NoFilter)
    IN /\ Range(ViewIds(res)) = Ids(store.books)
       /\ \A i, j \in 1..Len(res) : i < j => res[i].id < res[j].id
       /\ \A i \in 1..Len(res) :
            NamesAscending(res[i].authors) /\ NamesAscending(res[i].translators)

C19_Witness ==
  /\ pc = "ready"
  /\ \E v \in Range(getBooks(store, NoFilter)) :
       /\ Len(v.authors) = 2
       /\ v.authors[1].id > v.authors[2].id

\* C20: in every view of getBooks() the authors are exactly the writers that a
\* book_writers row of type author links to the book, the translators exactly
\* those a row of type translator links to it, as getBookWriters reports them.
C20_ClassifiedByLinkType ==
  pc = "ready" =>
    \A v \in Range(getBooks(store, NoFilter)) :
       /\ Range(v.authors) = ExpectedWriters(store, v.id, "author")
       /\ Range(v.translators) = ExpectedWriters(store, v.id, "translator")
       /\ {a.name : a \in Range(v.authors)} =
            {x.name : x \in {y \in Range(getBookWriters(store, v.id)) :
                               y.type = "author"}}

\* the number of places of the list res that hold x
Count(res, x) == Cardinality({i \in 1..Len(res) : res[i] = x})

\* C21: in every view that getBooks returns, the reviews list holds exactly
\* the reviews rows of that book, each as (review, rating, date_read) and as
\* often as the table holds it, in descending order of date_read.
C21_ViewReviews ==
  pc = "ready" =>
    \A filter \in {NoFilter, IdFilter(1)} :
      \A v \in Range(getBooks(store, filter)) :
         LET mine == {r \in store.reviews.rows : r.book_id = v.id}
         IN /\ Len(v.reviews) = Cardinality(mine)
            /\ \A r \in mine :
                 LET t == [review |-> r.review, rating |-> r.rating,
                           date_read |-> r.date_read]
                 IN Count(v.reviews, t) =
                      Cardinality({q \in mine :
                                     /\ q.review = r.review
                                     /\ q.rating = r.rating
                                     /\ q.date_read = r.date_read})
            /\ \A i, j \in 1..Len(v.reviews) :
                 i < j => TextRank(v.reviews[i].date_read) >=
                            TextRank(v.reviews[j].date_read)

C21_Witness ==
  /\ pc = "ready"
  /\ \E v \in Range(getBooks(store, NoFilter)) :
       /\ Len(v.reviews) = 2
       /\ v.reviews[1].date_read # v.reviews[2].date_read
       /\ \E a, b \in store.reviews.rows :
            /\ a.book_id = v.id /\ b.book_id = v.id
            /\ a.id < b.id
            /\ TextRank(a.date_read) < TextRank(b.date_read)

\* C22: getReviews(book_id) holds exactly the reviews rows of that book, each
\* once, in ascending order of date_read; it is empty for a book without
\* reviews.
C22_GetReviews ==
  pc = "ready" =>
    \A bookId \in ArgIds :
       LET res == getReviews(store, bookId)
       IN /\ Range(res) = {r \in store.reviews.rows : r.book_id = bookId}
          /\ Len(res) = Cardinality(Range(res))
          /\ \A i, j \in 1..Len(res) :
               i < j => TextRank(res[i].date_read) <= TextRank(res[j].date_read)

C22_Witness ==
  /\ pc = "ready"
  /\ Ids(store.books) = {1, 2}
  /\ Len(getReviews(store, 1)) = 2
  /\ getReviews(store, 2) = <<>>
  /\ \E a, b \in store.reviews.rows :
       a.id < b.id /\ TextRank(a.date_read) > TextRank(b.date_read)

RepositoryOps ==
  {"getOrAddWriter", "addBookWriterLink", "addBook", "addReview", "updateBook",
   "updateReview"}

\* C25: a repository operation runs only on an open Database whose migrate has
\* returned, and the store it runs on is at schema version 4; after a migrate
\* that raised there is no Database, the process can only end.
C25_MigratedBeforeUse ==
  /\ [](pc = "ready" => store.user_version = 4)
  /\ [][/\ (ret'.op \in RepositoryOps) =>
             (pc = "ready" /\ pc' = "ready" /\ store.user_version = 4)
        /\ pc = "failed" => (pc' = "closed" /\ store' = store)]_vars

C25_Witness ==
  /\ pc = "ready"
  /\ ret.op = "getOrAddWriter"
  /\ preOpen.user_version < 4
  /\ store.user_version = 4

\* C24: whatever fails inside a repository operation reaches the caller as an
\* error of the database kind.
C24_ErrorsAreDatabaseKind ==
  (pc = "ready" /\ ret.op \in RepositoryOps /\ ~ret.ok) => err = "DATABASE"

Filters ==
  {NoFilter} \cup {IdFilter(i) : i \in 0..(MaxBooks + 1)}
    \cup {YearFilter(y) : y \in FilterYears}

Linked(st, bookId) == {l \in st.book_writers.rows : l.book_id = bookId}

\* C30: whatever the filter, no book id is twice in the list getBooks
\* returns, and a book without any book_writers row is in the list of
\* getBooks() and of getBooks({id}) for its id, with no authors and no
\* translators.
C30_OneViewPerBook ==
  pc = "ready" =>
    /\ \A filter \in Filters :
         LET res == getBooks(store, filter)
         IN \A i, j \in 1..Len(res) : res[i].id = res[j].id => i = j
    /\ \A b \in store.books.rows :
         Linked(store, b.id) = {} =>
           \A filter \in {NoFilter, IdFilter(b.id)} :
              \E v \in Range(getBooks(store, filter)) :
                 v.id = b.id /\ v.authors = <<>> /\ v.translators = <<>>

C30_Witness ==
  /\ pc = "ready"
  /\ \E b \in store.books.rows :
       /\ Cardinality({l.writer_id : l \in Linked(store, b.id)}) = 2
       /\ Len(getBooks(store, IdFilter(b.id))) = 1
       /\ Len(getBooks(store, NoFilter)) = 1

\* C26: when the process has come to its end by itself, the handle that the
\* constructor opened has been closed.
C26_HandleClosedOnExit ==
  pc = "closed" => handle \in {"none", "closed", "killed"}

\* C23: every books row has a title that is neither missing nor empty.
C23_TitlesNotEmpty ==
  \A b \in store.books.rows : b.title # "NULL" /\ b.title # ""

\* C28: a call of addBookWithReview that raises leaves the store as it was.
C28_WithReviewAllOrNothing ==
  [][(ret'.op = "addBookWithReview" /\ ~ret'.ok) => store' = store]_vars

\* C29: handleEditReviewCommand never changes a books row.
C29_BookInfoReadOnly ==
  [][ret'.op = "handleEditReviewCommand" => store'.books = store.books]_vars

\* the books with that title that have the writer of that name as an author
BooksOf(st, title, name) ==
  {b \in st.books.rows :
     /\ b.title = title
     /\ \E w \in st.writers.rows :
          /\ w.name = name
          /\ [book_id |-> b.id, writer_id |-> w.id, type |-> "author"]
               \in st.book_writers.rows}

\* C27: the import of a record whose title and first author are those of a
\* book of the store adds no books row and leaves that book with the genre,
\* pub_year and pages of the record.
C27_ImportUpserts ==
  [][\A content \in ImportFiles :
       (/\ ret'.op = "handleImportMarkdownCommand"
        /\ content.title # NoLine
        /\ BooksOf(store, content.title, content.authors[1]) # {}
        /\ handleImportMarkdownCommand(content)) =>
          /\ Ids(store'.books) = Ids(store.books)
          /\ \A b \in BooksOf(store', content.title, content.authors[1]) :
               /\ b.genre = content.genre
               /\ b.pub_year = content.pub_year
               /\ b.pages = content.pages]_vars

====
